---------------------------- MODULE Spec2Model ----------------------------
(***************************************************************************)
(* Model of the crawl engine of cns-studios/scraper (src/scraper.py,       *)
(* src/scraping_service/utils.py).                                         *)
(*                                                                         *)
(* The crawler is a set of asyncio tasks on one event loop: max_workers    *)
(* WebScraper.worker tasks, the monitor task and run().  Control changes   *)
(* hands only at an await that suspends, so an action of this model is the *)
(* code a task runs between two suspensions.  The suspensions are: waiting *)
(* in queue.get(), an HTTP GET in flight (robots.txt, page, asset, asset   *)
(* 403 retry), the aiofiles write of save_page_content, the sleep of       *)
(* apply_rate_limit and the sleep of the monitor.  stop_lock is never held *)
(* across an await, so acquiring it never suspends; the semaphore has      *)
(* max_workers slots and a worker holds at most one, so it never suspends  *)
(* either.  The order in which the event loop resumes the tasks that are  *)
(* ready is left open.                                                     *)
(*                                                                         *)
(* Spec is the crawl with REQUEST_DELAY = 0, where apply_rate_limit does   *)
(* nothing (scraper.py:483).  SpecRate is the request path of fetch_page   *)
(* and download_asset with a positive REQUEST_DELAY and a clock.           *)
(***************************************************************************)
EXTENDS Naturals, Integers, Sequences, FiniteSets, TLC

(***************************************************************************)
(* The crawled site (the input of the run).  A URL is [host, path, query,  *)
(* frag], query being what follows '?' and frag what follows '#' ("" when  *)
(* the URL has none).                                                      *)
(***************************************************************************)
Url(h, p) == [host |-> h, path |-> p, query |-> "", frag |-> ""]
Frag(u, f) == [u EXCEPT !.frag = f]
Query(u, q) == [u EXCEPT !.query = q]

\* What a GET for u asks the server for: the fragment is not sent
Resource(u) == [u EXCEPT !.frag = ""]

PageA == Url("h", "/a")
PageB == Url("h", "/b")
PageC == Url("h", "/c")
PageX == Url("other", "/x")
PageLogin == Url("h", "/login")
Logo == Url("h", "/logo.png")
Font == Url("h", "/f.woff")
PageCTop == Frag(PageC, "top")
LogoV == Frag(Logo, "v")

\* The seeds explored (START_URL): /a, and /login, which should_scrape rejects
Seeds == {PageA, PageLogin}

\* An attribute value that refers to something: an absolute URL or a
\* relative reference (a file name resolved against the page's directory).
Abs(u) == [kind |-> "abs", url |-> u]
Rel(n) == [kind |-> "rel", name |-> n]

\* The worker tasks run() starts (lines 667-670), max_workers of them
Workers == {"w1", "w2"}

\* The HTML the stub server serves with status 200: the <a href> values, the
\* url() references of <style> blocks and style attributes, and the
\* img/link/script references with the asset type rewrite_html_urls gives them.
NoHtml == [anchors |-> << >>, css |-> << >>, assets |-> << >>]
Site(u) ==
    CASE Resource(u) = PageA ->
           [anchors |-> << Abs(PageB), Abs(PageC), Abs(PageX), Abs(PageLogin) >>,
            css |-> << Abs(Font) >>,
            assets |-> << >>]
      [] Resource(u) = PageB ->
           [anchors |-> << Abs(PageC) >>,
            css |-> << >>,
            assets |-> << [ref |-> Abs(Logo), type |-> "image"],
                          [ref |-> Abs(Logo), type |-> "image"] >>]
      [] Resource(u) = PageC ->
           [anchors |-> << >>,
            css |-> << >>,
            assets |-> << [ref |-> Abs(Logo), type |-> "image"] >>]
      [] Resource(u) = PageLogin ->
           [anchors |-> << Abs(PageC), Abs(PageCTop), Abs(PageX) >>,
            css |-> << >>,
            assets |-> << [ref |-> Abs(LogoV), type |-> "image"] >>]
      [] OTHER -> NoHtml

Served == {PageA, PageB, PageC, PageLogin}

\* What the server can answer to a page GET: "200" (the HTML of Site), "bad"
\* (status 200 with an <img src> that urljoin rejects, such as "http://["),
\* "non200", or "timeout" (asyncio.TimeoutError or another exception).
PageAnswers(u) == IF Resource(u) \in Served THEN {"200", "bad", "non200", "timeout"}
                                  ELSE {"non200", "timeout"}
AssetAnswers == {"200", "403", "non200", "timeout"}
RetryAnswers == {"200", "non200", "timeout"}
RobotsAnswers == {"200", "non200"}

\* The rules of the robots.txt served with status 200: Disallow: /c
RobotsDisallow == {"/c"}

(***************************************************************************)
(* Pure helpers                                                            *)
(***************************************************************************)
\* urlparse(url).netloc
netloc(u) == u.host

\* f"{scheme}://{netloc}", the key of robots_cache and the base_domain
Origin(u) == u.host

\* hashlib.md5(url.encode()).hexdigest()
get_url_hash(u) ==
    "md5(" \o u.host \o u.path \o (IF u.query = "" THEN "" ELSE "?" \o u.query)
           \o (IF u.frag = "" THEN "" ELSE "#" \o u.frag) \o ")"

\* os.path.splitext(path)[1] on the paths of the site and on the paths a
\* stored asset reference resolves to
splitext(p) == CASE p = "/logo.png" -> ".png"
                 [] p = "/f.woff" -> ".woff"
                 [] p = "/images/md5(h/logo.png).png" -> ".png"
                 [] p = "/fonts/md5(h/f.woff).woff" -> ".woff"
                 [] p = "/x.pdf" -> ".pdf"
                 [] p = "/x.tar.gz" -> ".gz"
                 [] OTHER -> ""

\* The keys of parse_qs(query): a key without a value ("download") is
\* dropped, keep_blank_values being False
parse_qs(q) == CASE q = "download=1" -> {"download"}
                 [] q = "page=2" -> {"page"}
                 [] q = "next=/login" -> {"next"}
                 [] OTHER -> {}

\* The parameter names written in the query string
QueryNames(q) == CASE q = "download=1" -> {"download"}
                   [] q = "download" -> {"download"}
                   [] q = "page=2" -> {"page"}
                   [] q = "next=/login" -> {"next"}
                   [] OTHER -> {}

\* The endings of a path that start at one of its dots
PathSuffixes(p) == CASE p = "/logo.png" -> {".png"}
                     [] p = "/f.woff" -> {".woff"}
                     [] p = "/x.pdf" -> {".pdf"}
                     [] p = "/x.tar.gz" -> {".tar.gz", ".gz"}
                     [] OTHER -> {}

\* The URLs should_scrape is applied to in SpecFilter
FilterUrls == {Query(Url(h, p), q) :
                  h \in {"h", "other"},
                  p \in {"/a", "/docs", "/login", "/signup", "/logo.png", "/x.pdf",
                         "/x.tar.gz"},
                  q \in {"", "download=1", "download", "page=2", "next=/login"}}

DOWNLOAD_EXTENSIONS == {".pdf", ".zip", ".exe", ".dmg", ".msi", ".tar.gz",
                        ".rar", ".doc", ".docx", ".xls", ".xlsx"}

EXCLUDE_PATHS == {"/login", "/signin", "/signup", "/register", "/logout"}
exclude_params == {"download", "login", "logout", "signin", "signup"}

\* re.search(pattern, url) for one of EXCLUDE_PATTERNS: the pattern is
\* searched in the whole URL, path and query string alike
MatchesExclude(u) == u.path \in EXCLUDE_PATHS \/ u.query = "next=/login"

\* should_scrape as it would be without the netloc test of line 62
should_scrapeAnyHost(u, base) ==
    /\ splitext(u.path) \notin DOWNLOAD_EXTENSIONS
    /\ ~MatchesExclude(u)
    /\ parse_qs(u.query) \cap exclude_params = {}

should_scrape(u, base) ==
    /\ u.host = base
    /\ splitext(u.path) \notin DOWNLOAD_EXTENSIONS
    /\ ~MatchesExclude(u)
    /\ parse_qs(u.query) \cap exclude_params = {}

\* url.split('#')[0]
clean_url(u) == [u EXCEPT !.frag = ""]

get_asset_local_path(u, type) ==
    LET ext0 == IF splitext(u.path) = "" THEN ".bin" ELSE splitext(u.path)
        subdir == CASE type \in {"image", "img"} -> "images"
                    [] type = "css" -> "css"
                    [] type \in {"js", "javascript"} -> "js"
                    [] type = "font" -> "fonts"
                    [] type \in {"video", "audio", "media"} -> "media"
                    [] OTHER -> "assets"
    IN subdir \o "/" \o get_url_hash(u) \o ext0

\* The local paths download_asset can return for the assets of the site
LocalPaths == {get_asset_local_path(clean_url(u), type) :
                  u \in {Logo, Font}, type \in {"image", "font"}}

\* urljoin(base_url, value): an absolute value is itself; a relative value
\* is resolved against the directory of the base, which is "/" for every
\* page of the site, so that a leading "../" is dropped.
urljoin(base, v) ==
    IF v.kind = "abs" THEN v.url
    ELSE IF \E p \in LocalPaths : v.name = "../" \o p
         THEN Url(base.host, "/" \o (CHOOSE p \in LocalPaths : v.name = "../" \o p))
         ELSE Url(base.host, "/" \o v.name)

\* dict.get(k, 0) and d[k] = d.get(k, 0) + 1
Get0(d, k) == IF k \in DOMAIN d THEN d[k] ELSE 0
Inc(d, k) == IF k \in DOMAIN d THEN [d EXCEPT ![k] = @ + 1] ELSE d @@ (k :> 1)
Put(d, k, v) == IF k \in DOMAIN d THEN [d EXCEPT ![k] = v] ELSE d @@ (k :> v)

Range(s) == {s[i] : i \in 1..Len(s)}

\* The orders in which `for new_url in new_urls` can walk a Python set
Orders(S) == {s \in [1..Cardinality(S) -> S] : Range(s) = S}


(***************************************************************************)
(* State                                                                   *)
(***************************************************************************)
VARIABLES
    \* constructor arguments (WebScraper.__init__), fixed during a run
    start_url, max_pages, pages_per_domain, max_depth, skip_assets,
    respect_robots, request_delay,
    \* fields of WebScraper
    visited_urls, scraped_data, asset_map, failed_assets, domain_counts,
    pages_scraped_count, should_stop,
    queue,              \* asyncio.Queue: the items, oldest first
    unfinished_tasks,   \* asyncio.Queue._unfinished_tasks, what join() waits on
    semaphore,          \* free slots of asyncio.Semaphore(max_workers)
    robots_cache,       \* RobotsChecker.robots_cache: the origins with parsed rules
    stats,              \* ScraperStats: pages_scraped, pages_failed
    \* the tasks
    worker,             \* per worker: where it is suspended, and its locals
    monitor_pc,         \* "watch", "done", "cancelled"
    run_pc,             \* "join", "gathered", "done"
    \* the output directory and metadata.json
    files, manifest,
    \* history of the run, read by the properties only
    admissions,         \* url -> number of times line 552 inserted it
    page_gets,          \* url -> number of page GETs issued (line 427)
    asset_gets,         \* url -> number of download_asset calls that issued a GET
    record_writes,      \* url -> number of times line 586 wrote its PageRecord
    stopper,            \* the worker whose increment at line 563 set should_stop
    raised,             \* exceptions of process_url swallowed at line 625
    enqueued,           \* url -> number of times line 604 put it on the queue
    robots_gets,        \* origin -> number of GETs of its robots.txt
    \* the rate limiter and its clock (SpecRate)
    now,                \* time.time()
    last_request_time,  \* WebScraper.last_request_time: host -> time
    requester,          \* per worker: where its request to a host stands
    last_sent,          \* host -> time of the latest outbound request
    min_gap,            \* host -> smallest time between two consecutive requests
    \* URLFilter.should_scrape applied to one URL (SpecFilter)
    candidate,          \* the URL
    verdict,            \* "none" before the call, then "scrape" or "skip"
    \* rewrite_html_urls on one srcset attribute (SpecSrcset)
    srcset_in,          \* the attribute as served: a sequence of candidates
    srcset_value,       \* element[attr] as it is now
    asset_tasks,        \* the entries of asset_tasks still to be processed
    downloads,          \* absolute URL -> whether download_asset stores it
    \* the control server, src/server.py (SpecServer)
    active_scrape,      \* WebArchiveServer.active_scrape: a pid, or 0 for None
    processes,          \* pid -> "running" or "exited", pids in creation order
    request,            \* per HTTP request: its kind, position, process, status
    monitors            \* the monitor_scrape tasks, in creation order

config == << start_url, max_pages, pages_per_domain, max_depth, skip_assets,
             respect_robots, request_delay >>
history == << admissions, page_gets, asset_gets, record_writes, stopper, raised,
             enqueued, robots_gets >>
rate == << now, last_request_time, requester, last_sent, min_gap >>
filter == << candidate, verdict >>
srcset == << srcset_in, srcset_value, asset_tasks, downloads >>
server == << active_scrape, processes, request, monitors >>
crawl == << visited_urls, scraped_data, asset_map, failed_assets, domain_counts,
            pages_scraped_count, should_stop, queue, unfinished_tasks, semaphore,
            robots_cache, stats, worker, monitor_pc, run_pc, files, manifest >>

NoUrl == Url("", "")
Idle(pc) == [pc |-> pc, url |-> NoUrl, depth |-> 0, html |-> NoHtml, tasks |-> << >>,
             status |-> "", headers |-> {}]

\* The names of the headers get_headers returns (lines 80-112): is_asset
\* changes values only, a referer adds Referer
get_headers(referer) ==
    {"User-Agent", "Accept-Language", "Accept-Encoding", "DNT", "Connection",
     "Upgrade-Insecure-Requests", "Accept", "Sec-Fetch-Dest", "Sec-Fetch-Mode",
     "Sec-Fetch-Site"} \cup (IF referer THEN {"Referer"} ELSE {})

\* Lines 225-227
minimal_headers == {"User-Agent"}

\* The worker loop after an item: `while not self.should_stop` (line 608),
\* then suspended in queue.get() (line 610) or returned.
LoopTop(stop) == Idle(IF stop THEN "exited" ELSE "get")

(***************************************************************************)
(* rewrite_html_urls, between its suspensions                              *)
(***************************************************************************)
\* Line 394: '.woff', '.ttf', '.eot' or '.otf' occurs in the URL; on the URLs
\* of the site that is the extension
FONT_MARKS == {".woff", ".ttf", ".eot", ".otf"}

\* The download_asset calls of one page, in the order the code makes them:
\* the url() references of <style> and style= first (lines 328-335, made
\* whatever skip_assets says), then asset_tasks unless skip_assets
\* (lines 338-341).
AssetTasks(html, base, skip) ==
    [i \in 1..Len(html.css) |->
        [slot |-> "css", i |-> i, url |-> urljoin(base, html.css[i]),
         type |-> IF splitext(urljoin(base, html.css[i]).path) \in FONT_MARKS
                  THEN "font" ELSE "image"]]
    \o
    (IF skip THEN << >>
     ELSE [i \in 1..Len(html.assets) |->
             [slot |-> "asset", i |-> i, url |-> urljoin(base, html.assets[i].ref),
              type |-> html.assets[i].type]])

\* What the caller of download_asset does with its result (lines 342-362
\* and 398-403): path is the local path, or "None".
ApplyResult(html, t, path) ==
    IF t.slot = "css"
    THEN IF path = "None" THEN html
         ELSE [html EXCEPT !.css[t.i] = Rel("../" \o path)]
    ELSE IF path # "None"
         THEN [html EXCEPT !.assets[t.i].ref = Rel("../" \o path)]
         ELSE IF html.assets[t.i].ref.kind = "abs" THEN html
              ELSE [html EXCEPT !.assets[t.i].ref = Abs(t.url)]

\* The calls at the head of tasks that return from the caches without a
\* request (lines 156-160), until one needs a GET or none is left.
RECURSIVE RunTasks(_, _, _, _)
RunTasks(tasks, html, amap, failed) ==
    IF tasks = << >> THEN [tasks |-> tasks, html |-> html]
    ELSE LET t == Head(tasks) IN
         IF t.url \in DOMAIN amap
         THEN RunTasks(Tail(tasks), ApplyResult(html, t, amap[t.url]), amap, failed)
         ELSE IF t.url \in failed
         THEN RunTasks(Tail(tasks), ApplyResult(html, t, "None"), amap, failed)
         ELSE [tasks |-> tasks, html |-> html]

\* Lines 365-376: an anchor to a URL in visited_urls becomes
\* "{digest}.html", any other becomes the absolute URL.  Anchors that start
\* with '#', 'javascript:', 'mailto:' or 'tel:' do not occur in the site.
RewriteAnchor(href, base, visited) ==
    IF urljoin(base, href) \in visited
    THEN Rel(get_url_hash(urljoin(base, href)) \o ".html")
    ELSE Abs(urljoin(base, href))

RewriteAnchors(html, base, visited) ==
    [html EXCEPT !.anchors =
        [i \in 1..Len(html.anchors) |-> RewriteAnchor(html.anchors[i], base, visited)]]

\* rewrite_html_urls run to its end on html, when every GET it issues fails:
\* a download_asset call returns the cached path, or None (lines 156-160,
\* 246-267), then the anchors are rewritten.
RECURSIVE RewriteAssets(_, _, _)
RewriteAssets(tasks, html, amap) ==
    IF tasks = << >> THEN html
    ELSE LET t == Head(tasks) IN
         RewriteAssets(Tail(tasks),
                       ApplyResult(html, t, IF t.url \in DOMAIN amap
                                            THEN amap[t.url] ELSE "None"),
                       amap)

rewrite_html_urls(html, base, skip, amap, visited) ==
    RewriteAnchors(RewriteAssets(AssetTasks(html, base, skip), html, amap),
                   base, visited)

\* extract_urls as it would be without the should_scrape test of line 504
extract_urlsNoFilter(html, base) ==
    {urljoin(base, html.anchors[i]) : i \in 1..Len(html.anchors)}

\* extract_urls (lines 492-510) on the content process_url passes it
extract_urls(html, base) ==
    {u \in {urljoin(base, html.anchors[i]) : i \in 1..Len(html.anchors)} :
        should_scrape(u, Origin(start_url))}

\* The state of a worker that goes on rewriting after a download_asset
\* call returned: suspended in the GET of the next uncached asset, or, with
\* no call left, in the file write of save_page_content (the anchors are
\* rewritten just before, with visited_urls as it is then).
Rewriting(w, wk, html, tasks, amap, failed, visited) ==
    LET r == RunTasks(tasks, html, amap, failed) IN
    IF r.tasks = << >>
    THEN [wk EXCEPT !.pc = "save", !.tasks = << >>, !.status = "", !.headers = {},
                    !.html = RewriteAnchors(r.html, wk.url, visited)]
    ELSE [wk EXCEPT !.pc = "asset_get", !.tasks = r.tasks, !.html = r.html,
                    !.status = "", !.headers = get_headers(TRUE)]

page_path(u) == "html/" \o get_url_hash(u) \o ".html"

(***************************************************************************)
(* Initial state: run() has put the seed on the queue (line 658) and       *)
(* started the workers and the monitor; every worker is suspended in       *)
(* queue.get().                                                            *)
(***************************************************************************)
InitCrawl(seed, mp, ppd, md, skip, robots) ==
    /\ start_url = seed
    /\ max_pages = mp
    /\ pages_per_domain = ppd
    /\ max_depth = md
    /\ skip_assets = skip
    /\ respect_robots = robots
    /\ visited_urls = {}
    /\ scraped_data = << >>
    /\ asset_map = << >>
    /\ failed_assets = {}
    /\ domain_counts = << >>
    /\ pages_scraped_count = 0
    /\ should_stop = FALSE
    /\ queue = << [url |-> start_url, depth |-> 0] >>
    /\ unfinished_tasks = 1
    /\ semaphore = Cardinality(Workers)
    /\ robots_cache = {}
    /\ stats = [pages_scraped |-> 0, pages_failed |-> 0]
    /\ worker = [w \in Workers |-> Idle("get")]
    /\ monitor_pc = "watch"
    /\ run_pc = "join"
    /\ files = << >>
    /\ manifest = "None"
    /\ admissions = << >>
    /\ page_gets = << >>
    /\ asset_gets = << >>
    /\ record_writes = << >>
    /\ stopper = "none"
    /\ robots_gets = << >>
    /\ raised = 0
    /\ enqueued = << >>

(***************************************************************************)
(* process_url, lines 542-552, and worker, lines 612-613                   *)
(***************************************************************************)
\* check_limits as it would be with > for >= at line 474
check_limitsOffByOne(url) ==
    IF pages_scraped_count >= max_pages THEN "cap"
    ELSE IF Get0(domain_counts, netloc(url)) > pages_per_domain THEN "drop"
    ELSE "ok"

\* check_limits (lines 458-479): "cap" sets should_stop and refuses,
\* "drop" refuses, "ok" lets the URL pass
check_limits(url) ==
    IF pages_scraped_count >= max_pages THEN "cap"
    ELSE IF Get0(domain_counts, netloc(url)) >= pages_per_domain THEN "drop"
    ELSE "ok"

\* Admission as it would be if the result of check_limits (line 549) were
\* ignored
AdmissionIgnoreLimits(url, depth) ==
    IF should_stop THEN "stopped"
    ELSE IF url \in visited_urls \/ depth > max_depth THEN "drop"
    ELSE "admit"

\* Admission as it would be without the should_stop tests of lines 612 and
\* 542 and without the check_limits call of line 549
AdmissionNoGate(url, depth) ==
    IF url \in visited_urls \/ depth > max_depth THEN "drop" ELSE "admit"

\* Admission as it would be without the depth test of line 545
AdmissionNoDepth(url, depth) ==
    IF should_stop THEN "stopped"
    ELSE IF url \in visited_urls THEN "drop"
    ELSE IF check_limits(url) = "ok" THEN "admit"
    ELSE check_limits(url)

\* Admission as it would be without the visited_urls test of line 545
AdmissionNoVisited(url, depth) ==
    IF should_stop THEN "stopped"
    ELSE IF depth > max_depth THEN "drop"
    ELSE IF check_limits(url) = "ok" THEN "admit"
    ELSE check_limits(url)

\* What becomes of an item a worker received: "stopped" (the worker breaks
\* at line 613), "drop" (lines 545-546, or check_limits refused), "cap",
\* or "admit" (line 552 is reached)
Admission(url, depth) ==
    IF should_stop THEN "stopped"
    ELSE IF url \in visited_urls \/ depth > max_depth THEN "drop"
    ELSE IF check_limits(url) = "ok" THEN "admit"
    ELSE check_limits(url)

\* RobotsChecker.can_fetch up to its first suspension (utils.py:121-148):
\* "fetch" when robots.txt of the origin has to be requested
RobotsGate(url, cache) ==
    IF ~respect_robots THEN "allow"
    ELSE IF Origin(url) \notin cache THEN "fetch"
    ELSE IF url.path \in RobotsDisallow THEN "deny"
    ELSE "allow"

\* A worker suspended in queue.get() receives the oldest item and runs to
\* its next suspension: the robots.txt GET, the page GET, or queue.get()
\* again when the item is dropped.
WorkerTake(w) ==
    /\ worker[w].pc = "get"
    /\ queue # << >>
    /\ LET url == Head(queue).url
           depth == Head(queue).depth
           adm == Admission(url, depth)
           gate == RobotsGate(url, robots_cache)
           returns == adm \in {"drop", "cap"} \/ (adm = "admit" /\ gate = "deny")
           stop == should_stop \/ adm = "cap"
       IN /\ queue' = Tail(queue)
          /\ should_stop' = stop
          /\ visited_urls' = IF adm = "admit" THEN visited_urls \cup {url}
                             ELSE visited_urls
          /\ admissions' = IF adm = "admit" THEN Inc(admissions, url) ELSE admissions
          /\ unfinished_tasks' = IF returns THEN unfinished_tasks - 1
                                 ELSE unfinished_tasks
          /\ worker' = [worker EXCEPT ![w] =
                IF adm = "stopped" THEN Idle("exited")
                ELSE IF returns THEN LoopTop(stop)
                ELSE [pc |-> IF gate = "fetch" THEN "robots" ELSE "page_get",
                      url |-> url, depth |-> depth, html |-> NoHtml,
                      tasks |-> << >>, status |-> "",
                      headers |-> IF gate = "fetch" THEN {} ELSE get_headers(FALSE)]]
          /\ page_gets' = IF adm = "admit" /\ gate = "allow"
                          THEN Inc(page_gets, url) ELSE page_gets
          /\ semaphore' = IF adm = "admit" /\ gate = "allow"
                          THEN semaphore - 1 ELSE semaphore
          /\ robots_gets' = IF adm = "admit" /\ gate = "fetch"
                            THEN Inc(robots_gets, Origin(url)) ELSE robots_gets
    /\ request_delay = 0
    /\ UNCHANGED << config, rate, filter, srcset, server, enqueued >>
    /\ UNCHANGED << scraped_data, asset_map, failed_assets, domain_counts,
                    pages_scraped_count, robots_cache, stats, monitor_pc, run_pc,
                    files, manifest, asset_gets, record_writes, stopper, raised >>

\* The robots.txt GET of can_fetch completes (utils.py:135-148): status 200
\* caches the parsed rules and asks them, anything else returns True
\* without caching.  Then fetch_page goes on to the page GET or returns None.
RobotsResponse(w, r) ==
    /\ worker[w].pc = "robots"
    /\ LET url == worker[w].url
           allowed == r # "200" \/ url.path \notin RobotsDisallow
       IN /\ robots_cache' = IF r = "200" THEN robots_cache \cup {Origin(url)}
                             ELSE robots_cache
          /\ worker' = [worker EXCEPT ![w] =
                IF allowed THEN [@ EXCEPT !.pc = "page_get", !.headers = get_headers(FALSE)]
                ELSE LoopTop(should_stop)]
          /\ page_gets' = IF allowed THEN Inc(page_gets, url) ELSE page_gets
          /\ semaphore' = IF allowed THEN semaphore - 1 ELSE semaphore
          /\ unfinished_tasks' = IF allowed THEN unfinished_tasks
                                 ELSE unfinished_tasks - 1
    /\ request_delay = 0
    /\ UNCHANGED << config, rate, filter, srcset, server, enqueued, robots_gets >>
    /\ UNCHANGED << visited_urls, scraped_data, asset_map, failed_assets,
                    domain_counts, pages_scraped_count, should_stop, queue, stats,
                    monitor_pc, run_pc, files, manifest, admissions, asset_gets,
                    record_writes, stopper, raised >>

(***************************************************************************)
(* fetch_page returns, process_url lines 555-580                           *)
(***************************************************************************)
\* FetchOk as it would be if process_url did not return at lines 556-557
\* when fetch_page returned None
FetchOkAlways(r) == TRUE

\* fetch_page returned content (status 200), line 556
FetchOk(r) == r \in {"200", "bad"}

\* PageResponse as it would be without the stats.add_page call of line 575
PageResponseNoStats(w, r) ==
    /\ worker[w].pc = "page_get"
    /\ r \in PageAnswers(worker[w].url)
    /\ LET wk == worker[w]
           ok == FetchOk(r)
           count == IF ok THEN pages_scraped_count + 1 ELSE pages_scraped_count
           stop == should_stop \/ (ok /\ count >= max_pages)
           nw == Rewriting(w, wk, Site(wk.url),
                           AssetTasks(Site(wk.url), wk.url, skip_assets),
                           asset_map, failed_assets, visited_urls)
       IN /\ pages_scraped_count' = count
          /\ should_stop' = stop
          /\ stopper' = IF stop /\ ~should_stop THEN w ELSE stopper
          /\ domain_counts' = IF ok THEN Inc(domain_counts, netloc(wk.url))
                              ELSE domain_counts
          /\ stats' = [pages_scraped |-> stats.pages_scraped,
                       pages_failed |-> IF r = "timeout" THEN stats.pages_failed + 1
                                        ELSE stats.pages_failed]
          /\ raised' = IF r = "bad" THEN raised + 1 ELSE raised
          /\ unfinished_tasks' = IF ok THEN unfinished_tasks
                                 ELSE unfinished_tasks - 1
          /\ worker' = [worker EXCEPT ![w] = IF r = "200" THEN nw ELSE LoopTop(stop)]
          /\ asset_gets' = IF r = "200" /\ nw.pc = "asset_get"
                           THEN Inc(asset_gets, Head(nw.tasks).url) ELSE asset_gets
          /\ semaphore' = IF r = "200" /\ nw.pc = "asset_get"
                          THEN semaphore ELSE semaphore + 1
    /\ request_delay = 0
    /\ UNCHANGED << config, rate, filter, srcset, server, enqueued, robots_gets >>
    /\ UNCHANGED << visited_urls, scraped_data, asset_map, failed_assets, queue,
                    robots_cache, monitor_pc, run_pc, files, manifest, admissions,
                    page_gets, record_writes >>

\* The page GET completes.  A timeout or a non-200 status makes fetch_page
\* return None and process_url return (line 557).  A 200 increments the
\* counters (lines 562-568, 575) and starts rewrite_html_urls, which runs to
\* the GET of the first uncached asset, to the file write, or raises.
PageResponse(w, r) ==
    /\ worker[w].pc = "page_get"
    /\ r \in PageAnswers(worker[w].url)
    /\ LET wk == worker[w]
           ok == FetchOk(r)
           count == IF ok THEN pages_scraped_count + 1 ELSE pages_scraped_count
           stop == should_stop \/ (ok /\ count >= max_pages)
           nw == Rewriting(w, wk, Site(wk.url),
                           AssetTasks(Site(wk.url), wk.url, skip_assets),
                           asset_map, failed_assets, visited_urls)
       IN /\ pages_scraped_count' = count
          /\ should_stop' = stop
          /\ stopper' = IF stop /\ ~should_stop THEN w ELSE stopper
          /\ domain_counts' = IF ok THEN Inc(domain_counts, netloc(wk.url))
                              ELSE domain_counts
          /\ stats' = [pages_scraped |-> IF ok THEN stats.pages_scraped + 1
                                         ELSE stats.pages_scraped,
                       pages_failed |-> IF r = "timeout" THEN stats.pages_failed + 1
                                        ELSE stats.pages_failed]
          /\ raised' = IF r = "bad" THEN raised + 1 ELSE raised
          /\ unfinished_tasks' = IF ok THEN unfinished_tasks
                                 ELSE unfinished_tasks - 1
          /\ worker' = [worker EXCEPT ![w] = IF r = "200" THEN nw ELSE LoopTop(stop)]
          /\ asset_gets' = IF r = "200" /\ nw.pc = "asset_get"
                           THEN Inc(asset_gets, Head(nw.tasks).url) ELSE asset_gets
          /\ semaphore' = IF r = "200" /\ nw.pc = "asset_get"
                          THEN semaphore ELSE semaphore + 1
    /\ request_delay = 0
    /\ UNCHANGED << config, rate, filter, srcset, server, enqueued, robots_gets >>
    /\ UNCHANGED << visited_urls, scraped_data, asset_map, failed_assets, queue,
                    robots_cache, monitor_pc, run_pc, files, manifest, admissions,
                    page_gets, record_writes >>

(***************************************************************************)
(* download_asset, lines 175-267                                           *)
(***************************************************************************)
\* AssetReturns as it would be if the slot of line 175 were not released
\* when download_asset returns
AssetReturnsNoRelease(w, path, amap, failed) ==
    LET wk == worker[w]
        t == Head(wk.tasks)
        nw == Rewriting(w, wk, ApplyResult(wk.html, t, path), Tail(wk.tasks),
                        amap, failed, visited_urls)
    IN /\ asset_map' = amap
       /\ failed_assets' = failed
       /\ worker' = [worker EXCEPT ![w] = nw]
       /\ asset_gets' = IF nw.pc = "asset_get"
                        THEN Inc(asset_gets, Head(nw.tasks).url) ELSE asset_gets
       /\ semaphore' = IF nw.pc = "asset_get" THEN semaphore - 1 ELSE semaphore

\* download_asset returns path ("None" after a failure), releasing its slot
\* of the semaphore, and the rewriting goes on to its next suspension (the
\* next GET takes a slot again).
AssetReturns(w, path, amap, failed) ==
    LET wk == worker[w]
        t == Head(wk.tasks)
        nw == Rewriting(w, wk, ApplyResult(wk.html, t, path), Tail(wk.tasks),
                        amap, failed, visited_urls)
    IN /\ asset_map' = amap
       /\ failed_assets' = failed
       /\ worker' = [worker EXCEPT ![w] = nw]
       /\ asset_gets' = IF nw.pc = "asset_get"
                        THEN Inc(asset_gets, Head(nw.tasks).url) ELSE asset_gets
       /\ semaphore' = IF nw.pc = "asset_get" THEN semaphore ELSE semaphore + 1

\* Lines 187-217 and 235-245: the file is written under the path of the
\* fragment-stripped URL, the mapping is stored under the URL as passed.
AssetStored(w) ==
    LET t == Head(worker[w].tasks)
        local_path == get_asset_local_path(clean_url(t.url), t.type)
    IN /\ files' = Put(files, local_path, "bytes")
       /\ AssetReturns(w, local_path, Put(asset_map, t.url, local_path),
                       failed_assets)

\* Lines 246-267: the URL is recorded in failed_assets.
AssetFailed(w) ==
    /\ files' = files
    /\ AssetReturns(w, "None", asset_map,
                    failed_assets \cup {Head(worker[w].tasks).url})

\* AssetResponse as it would be if line 219 read `else`: every answer other
\* than 200 is retried
AssetResponseRetryAll(w, r) ==
    /\ worker[w].pc = "asset_get"
    /\ IF r = "200" THEN AssetStored(w)
       ELSE /\ worker' = [worker EXCEPT ![w].pc = "asset_retry", ![w].status = r,
                                        ![w].headers = minimal_headers]
            /\ UNCHANGED << asset_map, failed_assets, files, asset_gets, semaphore >>
    /\ request_delay = 0
    /\ UNCHANGED << config, rate, filter, srcset, server, enqueued, robots_gets >>
    /\ UNCHANGED << visited_urls, scraped_data, domain_counts, pages_scraped_count,
                    should_stop, queue, unfinished_tasks, robots_cache, stats,
                    monitor_pc, run_pc, manifest, admissions, page_gets,
                    record_writes, stopper, raised >>

\* The first GET of download_asset completes (line 184): a 200 stores the
\* file, a 403 starts the second GET with minimal_headers (lines 219-233),
\* anything else is a failure.
AssetResponse(w, r) ==
    /\ worker[w].pc = "asset_get"
    /\ IF r = "200" THEN AssetStored(w)
       ELSE IF r = "403"
       THEN /\ worker' = [worker EXCEPT ![w].pc = "asset_retry", ![w].status = r,
                                        ![w].headers = minimal_headers]
            /\ UNCHANGED << asset_map, failed_assets, files, asset_gets, semaphore >>
       ELSE AssetFailed(w)
    /\ request_delay = 0
    /\ UNCHANGED << config, rate, filter, srcset, server, enqueued, robots_gets >>
    /\ UNCHANGED << visited_urls, scraped_data, domain_counts, pages_scraped_count,
                    should_stop, queue, unfinished_tasks, robots_cache, stats,
                    monitor_pc, run_pc, manifest, admissions, page_gets,
                    record_writes, stopper, raised >>

\* The retry with minimal headers after a 403 completes (line 234).
AssetRetryResponse(w, r) ==
    /\ worker[w].pc = "asset_retry"
    /\ IF r = "200" THEN AssetStored(w) ELSE AssetFailed(w)
    /\ UNCHANGED << config, rate, filter, srcset, server, enqueued, robots_gets >>
    /\ UNCHANGED << visited_urls, scraped_data, domain_counts, pages_scraped_count,
                    should_stop, queue, unfinished_tasks, robots_cache, stats,
                    monitor_pc, run_pc, manifest, admissions, page_gets,
                    record_writes, stopper, raised >>

(***************************************************************************)
(* process_url lines 582-604, worker lines 616-620                         *)
(***************************************************************************)
\* The PageRecord of line 586; timestamp and size are left out.
PageRecord(url, filepath, depth) ==
    [url |-> url, content_type |-> "text/html", filepath |-> filepath,
     depth |-> depth, domain |-> netloc(url)]

\* Lines 600-604 as they would be without their should_stop tests
QueuedUrlsNoStop(html, base) ==
    {u \in extract_urls(html, base) : u \notin visited_urls}

\* Lines 600-604 as they would be without the visited_urls test of line 603
QueuedUrlsNoVisited(html, base) ==
    IF should_stop THEN {} ELSE extract_urls(html, base)

\* The URLs lines 600-604 put on the queue: those extract_urls finds in the
\* content as saved that are not in visited_urls, none once should_stop is set
QueuedUrls(html, base) ==
    IF should_stop THEN {}
    ELSE {u \in extract_urls(html, base) : u \notin visited_urls}

\* d with every member of S counted once more
IncAll(d, S) == [u \in DOMAIN d \cup S |-> Get0(d, u) + (IF u \in S THEN 1 ELSE 0)]

\* save_page_content completes: it returns the path of the written file, or
\* None when the write raised (lines 534-538).  process_url then stores the
\* PageRecord, puts the extracted URLs that are not visited on the queue
\* unless should_stop is set, and the worker calls task_done.
SaveDone(w, written) ==
    /\ worker[w].pc = "save"
    /\ LET wk == worker[w]
           filepath == IF written THEN page_path(wk.url) ELSE "None"
           new_urls == QueuedUrls(wk.html, wk.url)
       IN /\ files' = IF written THEN Put(files, page_path(wk.url), wk.html) ELSE files
          /\ scraped_data' = Put(scraped_data, wk.url,
                                 PageRecord(wk.url, filepath, wk.depth))
          /\ record_writes' = Inc(record_writes, wk.url)
          /\ \E order \in Orders(new_urls) :
                queue' = queue \o [i \in 1..Len(order) |->
                                     [url |-> order[i], depth |-> wk.depth + 1]]
          /\ enqueued' = IncAll(enqueued, new_urls)
          /\ unfinished_tasks' = unfinished_tasks + Cardinality(new_urls) - 1
          /\ worker' = [worker EXCEPT ![w] = LoopTop(should_stop)]
    /\ UNCHANGED << config, rate, filter, srcset, server, robots_gets >>
    /\ UNCHANGED << visited_urls, asset_map, failed_assets, domain_counts,
                    pages_scraped_count, should_stop, semaphore, robots_cache,
                    stats, monitor_pc, run_pc, manifest, admissions, page_gets,
                    asset_gets, stopper, raised >>

\* wait_for(queue.get(), timeout=5) times out (lines 622-624): the worker
\* breaks when the queue is empty, and leaves the loop at line 608 when
\* should_stop is set.
WorkerTimeout(w) ==
    /\ worker[w].pc = "get"
    /\ queue = << >> \/ should_stop
    /\ worker' = [worker EXCEPT ![w] = Idle("exited")]
    /\ UNCHANGED << config, rate, filter, srcset, server >>
    /\ UNCHANGED history
    /\ UNCHANGED << visited_urls, scraped_data, asset_map, failed_assets,
                    domain_counts, pages_scraped_count, should_stop, queue,
                    unfinished_tasks, semaphore, robots_cache, stats, monitor_pc,
                    run_pc, files, manifest >>

(***************************************************************************)
(* run: monitor (lines 673-680), join and teardown (685-693), manifest     *)
(***************************************************************************)
\* The monitor wakes with should_stop set and empties the queue, calling
\* task_done for every item it removes.
MonitorDrain ==
    /\ monitor_pc = "watch"
    /\ should_stop
    /\ queue' = << >>
    /\ unfinished_tasks' = unfinished_tasks - Len(queue)
    /\ monitor_pc' = "done"
    /\ UNCHANGED << config, rate, filter, srcset, server >>
    /\ UNCHANGED history
    /\ UNCHANGED << visited_urls, scraped_data, asset_map, failed_assets,
                    domain_counts, pages_scraped_count, should_stop, semaphore,
                    robots_cache, stats, worker, run_pc, files, manifest >>

\* RunJoin as it would be if run() did not await queue.join() (line 685)
\* before cancelling the workers
RunJoinNoWait ==
    /\ run_pc = "join"
    /\ should_stop' = TRUE
    /\ monitor_pc' = IF monitor_pc = "watch" THEN "cancelled" ELSE monitor_pc
    /\ worker' = [w \in Workers |->
                    IF worker[w].pc = "exited" THEN worker[w] ELSE Idle("cancelled")]
    /\ run_pc' = "gathered"
    /\ UNCHANGED << config, rate, filter, srcset, server >>
    /\ UNCHANGED history
    /\ UNCHANGED << visited_urls, scraped_data, asset_map, failed_assets,
                    domain_counts, pages_scraped_count, queue, unfinished_tasks,
                    semaphore, robots_cache, stats, files, manifest >>

\* queue.join() returns (line 685); run sets should_stop, cancels the
\* monitor and the workers and gathers the workers (lines 686-693).
RunJoin ==
    /\ run_pc = "join"
    /\ unfinished_tasks = 0
    /\ should_stop' = TRUE
    /\ monitor_pc' = IF monitor_pc = "watch" THEN "cancelled" ELSE monitor_pc
    /\ worker' = [w \in Workers |->
                    IF worker[w].pc = "exited" THEN worker[w] ELSE Idle("cancelled")]
    /\ run_pc' = "gathered"
    /\ UNCHANGED << config, rate, filter, srcset, server >>
    /\ UNCHANGED history
    /\ UNCHANGED << visited_urls, scraped_data, asset_map, failed_assets,
                    domain_counts, pages_scraped_count, queue, unfinished_tasks,
                    semaphore, robots_cache, stats, files, manifest >>

\* save_json of metadata.json (lines 700-712)
WriteManifest ==
    /\ run_pc = "gathered"
    /\ manifest' = [total_pages |-> Cardinality(DOMAIN scraped_data),
                    pages_scraped |-> pages_scraped_count,
                    max_pages_limit |-> max_pages,
                    pages_per_domain_limit |-> pages_per_domain,
                    stats |-> stats,
                    domain_counts |-> domain_counts,
                    pages |-> scraped_data,
                    asset_map |-> asset_map,
                    failed_assets |-> failed_assets]
    /\ run_pc' = "done"
    /\ UNCHANGED << config, rate, filter, srcset, server >>
    /\ UNCHANGED history
    /\ UNCHANGED << visited_urls, scraped_data, asset_map, failed_assets,
                    domain_counts, pages_scraped_count, should_stop, queue,
                    unfinished_tasks, semaphore, robots_cache, stats, worker,
                    monitor_pc, files >>

vars == << config, crawl, history, rate, filter, srcset, server >>

\* The configurations explored: START_URL in Seeds, MAX_PAGES in
\* 0..MaxPages, PAGES_PER_DOMAIN in 0..MaxPerDomain, MAX_DEPTH in
\* 0..MaxDepth, SKIP_ASSETS and RESPECT_ROBOTS_TXT either way.
MaxPages == 3
MaxPerDomain == 3
MaxDepth == 2

NoRequest == [pc |-> "idle", host |-> "", kind |-> "", wake |-> 0]

InitServerIdle ==
    /\ active_scrape = 0
    /\ processes = << >>
    /\ request = << >>
    /\ monitors = << >>

InitSrcsetIdle ==
    /\ srcset_in = << >>
    /\ srcset_value = << >>
    /\ asset_tasks = << >>
    /\ downloads = << >>

InitFilterIdle ==
    /\ candidate = Url("", "")
    /\ verdict = "none"

InitRateIdle ==
    /\ now = 0
    /\ last_request_time = << >>
    /\ requester = [w \in Workers |-> NoRequest]
    /\ last_sent = << >>
    /\ min_gap = << >>

Init ==
    /\ \E seed \in Seeds, mp \in 0..MaxPages, ppd \in 0..MaxPerDomain,
          md \in 0..MaxDepth, skip \in BOOLEAN, robots \in BOOLEAN :
            InitCrawl(seed, mp, ppd, md, skip, robots)
    /\ request_delay = 0
    /\ InitRateIdle
    /\ InitFilterIdle
    /\ InitSrcsetIdle
    /\ InitServerIdle

Next ==
    \/ \E w \in Workers : WorkerTake(w)
    \/ \E w \in Workers : \E r \in RobotsAnswers : RobotsResponse(w, r)
    \/ \E w \in Workers : \E r \in {"200", "bad", "non200", "timeout"} : PageResponse(w, r)
    \/ \E w \in Workers : \E r \in AssetAnswers : AssetResponse(w, r)
    \/ \E w \in Workers : \E r \in RetryAnswers : AssetRetryResponse(w, r)
    \/ \E w \in Workers : \E written \in BOOLEAN : SaveDone(w, written)
    \/ \E w \in Workers : WorkerTimeout(w)
    \/ MonitorDrain
    \/ RunJoin
    \/ WriteManifest

Spec == Init /\ [][Next]_vars

(***************************************************************************)
(* The request path with REQUEST_DELAY > 0: apply_rate_limit (lines        *)
(* 481-490) and the GETs of fetch_page and download_asset that follow it.  *)
(* Time is counted in ticks from an origin that lies at least              *)
(* request_delay before the start of the run, so that a host without an    *)
(* entry in last_request_time (read as 0) is never waited for.  A          *)
(* request is taken to be sent at the instant apply_rate_limit returns,    *)
(* the earliest the code can send it.                                      *)
(***************************************************************************)
MaxTime == 5
Delay == 2
Hosts == {"h", "cdn"}

Min(a, b) == IF a <= b THEN a ELSE b

\* An outbound request to host h leaves at time t: the history of h
Sent(h, t) ==
    /\ last_sent' = Put(last_sent, h, t)
    /\ min_gap' = IF h \in DOMAIN last_sent
                  THEN Put(min_gap, h,
                           IF h \in DOMAIN min_gap
                           THEN Min(min_gap[h], t - last_sent[h])
                           ELSE t - last_sent[h])
                  ELSE min_gap

\* apply_rate_limit up to its suspension (lines 483-488), called by
\* fetch_page (kind "page", line 421) or download_asset (kind "asset",
\* line 167): with elapsed < request_delay the caller sleeps for the rest,
\* otherwise it stamps last_request_time (line 490) and sends its GET.
RateRequest(w, h, kind) ==
    /\ requester[w].pc = "idle"
    /\ request_delay > 0
    /\ LET last_time == Get0(last_request_time, h)
           elapsed == now - last_time
       IN IF elapsed < request_delay
          THEN /\ requester' = [requester EXCEPT ![w] =
                     [pc |-> "sleep", host |-> h, kind |-> kind,
                      wake |-> now + (request_delay - elapsed)]]
               /\ UNCHANGED << last_request_time, last_sent, min_gap >>
          ELSE /\ requester' = [requester EXCEPT ![w] =
                     [pc |-> "get", host |-> h, kind |-> kind, wake |-> 0]]
               /\ last_request_time' = Put(last_request_time, h, now)
               /\ Sent(h, now)
    /\ UNCHANGED << now, config, crawl, history, filter, srcset, server >>

\* asyncio.sleep returns (line 488), not before its time; line 490 stamps
\* last_request_time and the GET is sent.
RateWake(w) ==
    /\ requester[w].pc = "sleep"
    /\ now >= requester[w].wake
    /\ requester' = [requester EXCEPT ![w].pc = "get", ![w].wake = 0]
    /\ last_request_time' = Put(last_request_time, requester[w].host, now)
    /\ Sent(requester[w].host, now)
    /\ UNCHANGED << now, config, crawl, history, filter, srcset, server >>

\* The GET completes.  A 403 for an asset is retried at once with minimal
\* headers (lines 219-234), without apply_rate_limit.
RateResponse(w, r) ==
    /\ requester[w].pc = "get"
    /\ IF r = "403" /\ requester[w].kind = "asset"
       THEN /\ requester' = [requester EXCEPT ![w].pc = "retry"]
            /\ Sent(requester[w].host, now)
       ELSE /\ requester' = [requester EXCEPT ![w] = NoRequest]
            /\ UNCHANGED << last_sent, min_gap >>
    /\ UNCHANGED << now, last_request_time, config, crawl, history, filter, srcset, server >>

\* The retry completes.
RateRetryResponse(w) ==
    /\ requester[w].pc = "retry"
    /\ requester' = [requester EXCEPT ![w] = NoRequest]
    /\ UNCHANGED << now, last_request_time, last_sent, min_gap, config, crawl,
                    history, filter, srcset, server >>

\* Time passes.
Tick ==
    /\ now < MaxTime
    /\ now' = now + 1
    /\ UNCHANGED << last_request_time, requester, last_sent, min_gap, config,
                    crawl, history, filter, srcset, server >>

InitRate ==
    /\ InitCrawl(PageA, MaxPages, MaxPerDomain, MaxDepth, FALSE, FALSE)
    /\ request_delay = Delay
    /\ now = request_delay
    /\ last_request_time = << >>
    /\ requester = [w \in Workers |-> NoRequest]
    /\ last_sent = << >>
    /\ min_gap = << >>
    /\ InitFilterIdle
    /\ InitSrcsetIdle
    /\ InitServerIdle

NextRate ==
    \/ \E w \in Workers : \E h \in Hosts : \E kind \in {"page", "asset"} :
          RateRequest(w, h, kind)
    \/ \E w \in Workers : RateWake(w)
    \/ \E w \in Workers : \E r \in AssetAnswers : RateResponse(w, r)
    \/ \E w \in Workers : RateRetryResponse(w)
    \/ Tick

SpecRate == InitRate /\ [][NextRate]_vars

(***************************************************************************)
(* URLFilter.should_scrape on its own: one URL of FilterUrls is drawn and   *)
(* extract_urls applies should_scrape to it with the base_domain of the     *)
(* seed http://h/a (line 504).                                              *)
(***************************************************************************)
ApplyFilter ==
    /\ verdict = "none"
    /\ verdict' = IF should_scrape(candidate, Origin(start_url)) THEN "scrape"
                  ELSE "skip"
    /\ UNCHANGED << candidate, config, crawl, history, rate, srcset, server >>

InitFilter ==
    /\ InitCrawl(PageA, MaxPages, MaxPerDomain, MaxDepth, FALSE, FALSE)
    /\ request_delay = 0
    /\ InitRateIdle
    /\ candidate \in FilterUrls
    /\ verdict = "none"
    /\ InitSrcsetIdle
    /\ InitServerIdle

NextFilter == ApplyFilter

SpecFilter == InitFilter /\ [][NextFilter]_vars

(***************************************************************************)
(* rewrite_html_urls on one <img srcset> of the seed page http://h/a.  The  *)
(* attribute is a sequence of candidates [url, desc]: split(',') gives the  *)
(* candidates, strip().split(' ') the URL token and the descriptor, and     *)
(* ', '.join and ' '.join put them back.  Whether download_asset stores a   *)
(* URL is drawn once for the run.                                           *)
(***************************************************************************)
MaxCandidates == 2

SrcsetTokens == {Rel("logo.png"), Abs(Logo), Rel("f.woff"), Abs(Font)}
Descriptors == {"1x", "2x"}
SrcsetInputs ==
    UNION {[1..n -> [url : SrcsetTokens, desc : Descriptors]] : n \in 1..MaxCandidates}

\* Lines 282-294: one entry of asset_tasks per candidate of the attribute
SrcsetTasks(value, base) ==
    [i \in 1..Len(value) |->
        [original_url |-> value[i].url, absolute_url |-> urljoin(base, value[i].url)]]

\* Lines 342-362 for a srcset attribute: with a local path, the URL token of
\* every candidate that equals original_url becomes "../" + path; without
\* one, element[attr] is set to absolute_url unless original_url starts with
\* http://, https:// or //
SrcsetApply(value, t, local_path) ==
    IF local_path # "None"
    THEN [i \in 1..Len(value) |->
            IF value[i].url = t.original_url
            THEN [value[i] EXCEPT !.url = Rel("../" \o local_path)]
            ELSE value[i]]
    ELSE IF t.original_url.kind = "abs" THEN value
         ELSE << [url |-> Abs(t.absolute_url), desc |-> ""] >>

\* What download_asset returns for the URL (lines 191-217, 252-267)
Downloaded(u) ==
    IF downloads[u] THEN get_asset_local_path(clean_url(u), "image") ELSE "None"

\* The body of the loop of line 340 for the next entry of asset_tasks
SrcsetTask ==
    /\ asset_tasks # << >>
    /\ srcset_value' = SrcsetApply(srcset_value, Head(asset_tasks),
                                   Downloaded(Head(asset_tasks).absolute_url))
    /\ asset_tasks' = Tail(asset_tasks)
    /\ UNCHANGED << srcset_in, downloads, config, crawl, history, rate, filter, server >>

InitSrcset ==
    /\ InitCrawl(PageA, MaxPages, MaxPerDomain, MaxDepth, FALSE, FALSE)
    /\ request_delay = 0
    /\ InitRateIdle
    /\ InitFilterIdle
    /\ srcset_in \in SrcsetInputs
    /\ srcset_value = srcset_in
    /\ asset_tasks = SrcsetTasks(srcset_in, start_url)
    /\ downloads \in [{Logo, Font} -> BOOLEAN]
    /\ InitServerIdle

NextSrcset == SrcsetTask

SpecSrcset == InitSrcset /\ [][NextSrcset]_vars

(***************************************************************************)
(* The control server (src/server.py): the handlers of /api/scrape/start   *)
(* and /api/scrape/stop and the monitor_scrape tasks, all coroutines on    *)
(* one event loop.  A handler runs from one suspension to the next: a      *)
(* start handler suspends in request.json() and in                         *)
(* create_subprocess_exec, a stop handler and a monitor in process.wait(). *)
(* A scraper subprocess can exit at any time, on its own or after          *)
(* terminate().                                                            *)
(***************************************************************************)
MaxRequests == 3

Requests == 1..MaxRequests
NewRequest == [kind |-> "none", pc |-> "new", proc |-> 0, status |-> 0]
Running == {p \in DOMAIN processes : processes[p] = "running"}

\* A start request arrives (lines 177-183): rejected with 400 when
\* active_scrape is set, else the handler awaits the request body.
StartArrives(r) ==
    /\ request[r].pc = "new"
    /\ request' = [request EXCEPT ![r] =
          IF active_scrape # 0
          THEN [kind |-> "start", pc |-> "done", proc |-> 0, status |-> 400]
          ELSE [kind |-> "start", pc |-> "json", proc |-> 0, status |-> 0]]
    /\ UNCHANGED << active_scrape, processes, monitors >>
    /\ UNCHANGED << config, crawl, history, rate, filter, srcset >>

\* request.json() returns (lines 183-195): a body that is not JSON raises
\* and is answered with 500 (lines 209-213); else .env is updated and the
\* handler awaits create_subprocess_exec.
StartParsed(r, ok) ==
    /\ request[r].pc = "json"
    /\ request' = [request EXCEPT ![r] =
          IF ok THEN [@ EXCEPT !.pc = "exec"]
          ELSE [@ EXCEPT !.pc = "done", !.status = 500]]
    /\ UNCHANGED << active_scrape, processes, monitors >>
    /\ UNCHANGED << config, crawl, history, rate, filter, srcset >>

\* create_subprocess_exec returns the new process (lines 195-207): it is
\* stored in active_scrape, a monitor_scrape task is created, and the
\* request is answered with status 200.
StartSpawned(r) ==
    /\ request[r].pc = "exec"
    /\ processes' = Append(processes, "running")
    /\ active_scrape' = Len(processes) + 1
    /\ monitors' = Append(monitors, [pc |-> "created", proc |-> 0])
    /\ request' = [request EXCEPT ![r] =
          [@ EXCEPT !.pc = "done", !.proc = Len(processes) + 1, !.status = 200]]
    /\ UNCHANGED << config, crawl, history, rate, filter, srcset >>

\* A monitor_scrape task runs for the first time (lines 217-218): it waits
\* for the process active_scrape refers to now, or returns if there is none.
MonitorStarts(m) ==
    /\ monitors[m].pc = "created"
    /\ monitors' = [monitors EXCEPT ![m] =
          IF active_scrape # 0 THEN [pc |-> "wait", proc |-> active_scrape]
          ELSE [pc |-> "done", proc |-> 0]]
    /\ UNCHANGED << active_scrape, processes, request >>
    /\ UNCHANGED << config, crawl, history, rate, filter, srcset >>

\* The process a monitor waits for has exited (lines 218-220).
MonitorWakes(m) ==
    /\ monitors[m].pc = "wait"
    /\ processes[monitors[m].proc] = "exited"
    /\ active_scrape' = 0
    /\ monitors' = [monitors EXCEPT ![m].pc = "done"]
    /\ UNCHANGED << processes, request >>
    /\ UNCHANGED << config, crawl, history, rate, filter, srcset >>

\* A stop request arrives (lines 246-248, 255-257): with active_scrape set
\* the process is sent SIGTERM and the handler waits for it, else 400.
StopArrives(r) ==
    /\ request[r].pc = "new"
    /\ request' = [request EXCEPT ![r] =
          IF active_scrape # 0
          THEN [kind |-> "stop", pc |-> "wait", proc |-> active_scrape, status |-> 0]
          ELSE [kind |-> "stop", pc |-> "done", proc |-> 0, status |-> 400]]
    /\ UNCHANGED << active_scrape, processes, monitors >>
    /\ UNCHANGED << config, crawl, history, rate, filter, srcset >>

\* The process a stop handler waits for has exited (lines 248-253).
StopWakes(r) ==
    /\ request[r].pc = "wait"
    /\ processes[request[r].proc] = "exited"
    /\ active_scrape' = 0
    /\ request' = [request EXCEPT ![r] = [@ EXCEPT !.pc = "done", !.status = 200]]
    /\ UNCHANGED << processes, monitors >>
    /\ UNCHANGED << config, crawl, history, rate, filter, srcset >>

\* A scraper subprocess exits.
ProcessExits(p) ==
    /\ processes[p] = "running"
    /\ processes' = [processes EXCEPT ![p] = "exited"]
    /\ UNCHANGED << active_scrape, request, monitors >>
    /\ UNCHANGED << config, crawl, history, rate, filter, srcset >>

InitServer ==
    /\ InitCrawl(PageA, MaxPages, MaxPerDomain, MaxDepth, FALSE, FALSE)
    /\ request_delay = 0
    /\ InitRateIdle
    /\ InitFilterIdle
    /\ InitSrcsetIdle
    /\ active_scrape = 0
    /\ processes = << >>
    /\ request = [r \in Requests |-> NewRequest]
    /\ monitors = << >>

NextServer ==
    \/ \E r \in Requests : StartArrives(r)
    \/ \E r \in Requests : \E ok \in BOOLEAN : StartParsed(r, ok)
    \/ \E r \in Requests : StartSpawned(r)
    \/ \E m \in DOMAIN monitors : MonitorStarts(m)
    \/ \E m \in DOMAIN monitors : MonitorWakes(m)
    \/ \E r \in Requests : StopArrives(r)
    \/ \E r \in Requests : StopWakes(r)
    \/ \E p \in DOMAIN processes : ProcessExits(p)

SpecServer == InitServer /\ [][NextServer]_vars

(***************************************************************************)
(* Properties                                                              *)
(***************************************************************************)
AllExited == \A w \in Workers : worker[w].pc = "exited"

\* The page files under html/
PageFiles == {f \in DOMAIN files : \E u \in visited_urls : f = page_path(u)}

\* C1: the global page counter never exceeds max_pages, in any reachable
\* state and in the manifest.
C1_PageCap ==
    /\ pages_scraped_count <= max_pages
    /\ run_pc = "done" => manifest.pages_scraped <= max_pages

\* C2: for every host h, domain_counts[h] is at most pages_per_domain, in
\* any reachable state.
C2_PerDomainCap ==
    \A h \in DOMAIN domain_counts : domain_counts[h] <= pages_per_domain

\* C3: every URL passes admission at most once per run: it is inserted into
\* visited_urls at most once, at most one page GET is issued for it, and its
\* PageRecord is written at most once (so it never changes afterwards).
C3_AdmittedOnce ==
    /\ \A u \in DOMAIN admissions : admissions[u] <= 1 /\ u \in visited_urls
    /\ \A u \in DOMAIN page_gets : page_gets[u] <= 1 /\ u \in visited_urls
    /\ \A u \in DOMAIN record_writes : record_writes[u] <= 1
    /\ DOMAIN scraped_data = DOMAIN record_writes

\* C3's case: /c was put on the queue twice (by /a and by /b); one entry was
\* admitted, fetched and recorded while the other is still on the queue.
C3_Witness ==
    /\ Get0(admissions, PageC) = 1
    /\ Get0(page_gets, PageC) = 1
    /\ PageC \in DOMAIN scraped_data
    /\ \E i \in 1..Len(queue) : queue[i].url = PageC

\* C4: at most one GET sequence is issued per asset URL during a run.
C4_OneGetPerAsset ==
    \A u \in DOMAIN asset_gets : asset_gets[u] <= 1

\* C5: no URL is both a key of asset_map and a member of failed_assets, in
\* any reachable state and in the manifest.
C5_MapDisjointFailed ==
    /\ DOMAIN asset_map \cap failed_assets = {}
    /\ run_pc = "done" => DOMAIN manifest.asset_map \cap manifest.failed_assets = {}

\* C6: once should_stop is set, a step adds or changes a PageRecord only if
\* it is the save of the worker whose counter increment set the signal.
C6_NoRecordAfterStop ==
    [][(should_stop /\ scraped_data' # scraped_data)
         => /\ stopper \in Workers
            /\ worker[stopper].pc = "save"
            /\ worker'[stopper].pc # "save"]_vars

\* C7: run() returns from queue.join().  join returns only when
\* unfinished_tasks is 0; once every worker has returned and the queue is
\* empty nothing calls task_done any more, so in a run where process_url
\* never raised, such a state has unfinished_tasks = 0.
C7_JoinReturns ==
    (AllExited /\ queue = << >> /\ raised = 0) => unfinished_tasks = 0

\* C8: two consecutive outbound requests to the same host are at least
\* request_delay apart.
C8_RateSpacing ==
    \A h \in DOMAIN min_gap : min_gap[h] >= request_delay

\* C9: at the end of the run the number of page files under html/ equals
\* the number of entries of the manifest's pages map, and every PageRecord's
\* filepath names a file that was written.
C9_FilesMatchPages ==
    run_pc = "done" =>
        /\ Cardinality(PageFiles) = Cardinality(DOMAIN manifest.pages)
        /\ \A u \in DOMAIN manifest.pages : manifest.pages[u].filepath \in DOMAIN files

\* C10: when the seed /a and the page /b it links to are both stored, the
\* stored copy of /a has its anchor to /b rewritten to "{digest(/b)}.html".
C10_SeedAnchorLocal ==
    (start_url = PageA /\ page_path(PageA) \in DOMAIN files
       /\ PageB \in DOMAIN scraped_data)
        => \E i \in 1..Len(Site(PageA).anchors) :
              /\ Site(PageA).anchors[i] = Abs(PageB)
              /\ files[page_path(PageA)].anchors[i]
                    = Rel(get_url_hash(PageB) \o ".html")

\* The pages whose rewritten copy is on disk
StoredPages == {u \in DOMAIN scraped_data : page_path(u) \in DOMAIN files}

\* C11: two page URLs that differ only in their fragment are one URL to the
\* crawl: at most one of them is in visited_urls, gets a page GET, and gets
\* a PageRecord with its page file.
C11_FragmentsOneUrl ==
    \A u, v \in visited_urls \cup DOMAIN page_gets \cup DOMAIN scraped_data :
        clean_url(u) = clean_url(v) => u = v

\* C12: asset_map is injective: two distinct keys never map to the same
\* local path, also when the keys differ only in their fragment.
C12_AssetMapInjective ==
    \A u, v \in DOMAIN asset_map : asset_map[u] = asset_map[v] => u = v

C14_DepthCap ==
    /\ [](\A u \in DOMAIN scraped_data : scraped_data[u].depth <= max_depth)
    /\ [][(/\ queue # << >>
           /\ Head(queue).depth > max_depth
           /\ queue' = Tail(queue)
           /\ monitor_pc' = monitor_pc)
          => /\ visited_urls' = visited_urls
             /\ page_gets' = page_gets
             /\ asset_gets' = asset_gets
             /\ robots_cache' = robots_cache
             /\ \A w \in Workers :
                   worker'[w] = worker[w] \/ worker'[w].pc \in {"get", "exited"}]_vars

\* C14's case: with max_depth = 0 the seed put /c on the queue with depth 1
\* and the stop signal was never set, so the queue is empty because a worker
\* received that item; /c is not in visited_urls.
C14_Witness ==
    /\ max_depth = 0
    /\ ~should_stop
    /\ Get0(enqueued, PageC) = 1
    /\ queue = << >>
    /\ PageC \notin visited_urls

\* C15: with MAX_DEPTH=0 no discovered link is put on the queue (the only
\* item it ever holds is the seed at depth 0), no page but the seed gets a
\* PageRecord, and a run whose seed was answered 200 ends with exactly one.
C15_DepthZeroSeedOnly ==
    max_depth = 0 =>
        /\ enqueued = << >>
        /\ \A i \in 1..Len(queue) : queue[i] = [url |-> start_url, depth |-> 0]
        /\ DOMAIN scraped_data \subseteq {start_url}
        /\ (run_pc = "done" /\ stats.pages_scraped > 0)
              => DOMAIN scraped_data = {start_url}

\* C16: with PAGES_PER_DOMAIN=0 no URL passes admission: visited_urls,
\* scraped_data and domain_counts stay empty and no page GET is issued; the
\* seed's task_done leaves nothing for queue.join() to wait on, and the
\* manifest has zero pages.
C16_ZeroPerDomain ==
    pages_per_domain = 0 =>
        /\ visited_urls = {}
        /\ scraped_data = << >>
        /\ domain_counts = << >>
        /\ page_gets = << >>
        /\ \A w \in Workers : worker[w].pc \in {"get", "exited", "cancelled"}
        /\ queue = << >> => unfinished_tasks = 0
        /\ run_pc = "done" => manifest.total_pages = 0 /\ manifest.pages = << >>

\* C16's case: the run ended with PAGES_PER_DOMAIN=0 and a positive page
\* cap; the seed was taken from the queue and the manifest is written.
C16_Witness ==
    /\ pages_per_domain = 0
    /\ max_pages > 0
    /\ queue = << >>
    /\ run_pc = "done"
    /\ manifest.total_pages = 0

\* C17: the seed is fetched without passing should_scrape: with positive
\* caps, once a worker has received the seed it is in visited_urls and its
\* page GET is issued (after the robots.txt answer when that is awaited).
\* Every URL line 604 ever put on the queue satisfies should_scrape.
C17_SeedUnfiltered ==
    /\ (/\ max_pages > 0
        /\ pages_per_domain > 0
        /\ \A i \in 1..Len(queue) : queue[i] # [url |-> start_url, depth |-> 0])
          => /\ start_url \in visited_urls
             /\ \/ Get0(page_gets, start_url) = 1
                \/ \E w \in Workers :
                      worker[w].pc = "robots" /\ worker[w].url = start_url
    /\ \A u \in DOMAIN enqueued : should_scrape(u, Origin(start_url))

\* C17's case: the seed is /login, which should_scrape rejects; it was
\* fetched and stored, and its link /c was put on the queue.
C17_Witness ==
    /\ start_url = PageLogin
    /\ ~should_scrape(start_url, Origin(start_url))
    /\ Get0(page_gets, PageLogin) = 1
    /\ PageLogin \in DOMAIN scraped_data
    /\ Get0(enqueued, PageC) = 1

\* C18: every URL put on the queue other than the seed has the seed's host;
\* no URL of another host is put on the queue, added to visited_urls or
\* fetched as a page, and an anchor to another host is stored as the
\* absolute URL.
C18_SameHostOnly ==
    /\ \A u \in DOMAIN enqueued \cup visited_urls \cup DOMAIN page_gets :
          netloc(u) = netloc(start_url)
    /\ \A i \in 1..Len(queue) : netloc(queue[i].url) = netloc(start_url)
    /\ \A u \in StoredPages : \A i \in 1..Len(Site(u).anchors) :
          LET target == urljoin(u, Site(u).anchors[i]) IN
          netloc(target) # netloc(start_url)
              => files[page_path(u)].anchors[i] = Abs(target)

\* C18's case: the seed /a, which links to http://other/x, is stored and
\* its same-host link /b was put on the queue.
C18_Witness ==
    /\ start_url = PageA
    /\ PageA \in StoredPages
    /\ files[page_path(PageA)].anchors[3] = Abs(PageX)
    /\ Get0(enqueued, PageB) = 1
    /\ PageX \notin DOMAIN enqueued

\* robots.txt denied u: u passed admission, the rules of its origin are
\* cached and disallow it, and fetch_page returned for it without a page
\* GET (a URL admitted while robots.txt answered non-200 is fetched, and the
\* rules may be cached later).
RobotsDenied(u) ==
    /\ respect_robots
    /\ u \in visited_urls
    /\ Origin(u) \in robots_cache
    /\ u.path \in RobotsDisallow
    /\ Get0(page_gets, u) = 0
    /\ \A w \in Workers : worker[w].url # u

\* C19: a URL robots.txt denied is in visited_urls without a page GET; it
\* has no PageRecord, the counters count only fetched pages, and every
\* stored page that links to it has that anchor as the absolute URL.
C19_RobotsDenied ==
    \A u \in visited_urls : RobotsDenied(u) =>
        /\ u \notin DOMAIN scraped_data
        /\ pages_scraped_count <= Cardinality(DOMAIN page_gets)
        /\ \A v \in StoredPages : \A i \in 1..Len(Site(v).anchors) :
              urljoin(v, Site(v).anchors[i]) = u
                  => files[page_path(v)].anchors[i] = Abs(u)

\* C20: a URL that is in visited_urls is not put on the queue by any step.
C20_NoReenqueue ==
    [][\A u \in visited_urls : Get0(enqueued', u) = Get0(enqueued, u)]_vars

\* C20's case: /b was stored with its anchor to /c still absolute, so
\* extract_urls found /c in it; the stop signal was never set; /c is in
\* visited_urls and was put on the queue once, by the seed and not by /b.
C20_Witness ==
    /\ start_url = PageA
    /\ ~should_stop
    /\ PageB \in StoredPages
    /\ files[page_path(PageB)].anchors[1] = Abs(PageC)
    /\ PageC \in visited_urls
    /\ Get0(enqueued, PageC) = 1

\* A worker receives the oldest queue item in this step (the monitor, which
\* also removes items, is left where it is)
TakesItem ==
    /\ queue # << >>
    /\ queue' = Tail(queue)
    /\ monitor_pc' = monitor_pc

\* No request is started in this step: every worker stays where it is or
\* ends up waiting in queue.get() or returned
StartsNoRequest ==
    /\ page_gets' = page_gets
    /\ asset_gets' = asset_gets
    /\ robots_cache' = robots_cache
    /\ \A w \in Workers :
          worker'[w] = worker[w] \/ worker'[w].pc \in {"get", "exited", "cancelled"}

\* C21: a step in which a worker receives an item that passes the stop,
\* visited and depth tests but that check_limits rejects does not insert
\* the URL into visited_urls, starts no request and leaves scraped_data,
\* domain_counts and pages_scraped_count unchanged.
C21_RejectedLeavesNoTrace ==
    [][(/\ TakesItem
        /\ ~should_stop
        /\ Head(queue).url \notin visited_urls
        /\ Head(queue).depth <= max_depth
        /\ check_limits(Head(queue).url) # "ok")
       => /\ visited_urls' = visited_urls
          /\ StartsNoRequest
          /\ scraped_data' = scraped_data
          /\ domain_counts' = domain_counts
          /\ pages_scraped_count' = pages_scraped_count]_vars

\* C21's case: PAGES_PER_DOMAIN=1 and the seed /a is counted; /b was put on
\* the queue with depth 1 <= max_depth and the stop signal was never set,
\* so a worker received it; it is not in visited_urls.
C21_Witness ==
    /\ start_url = PageA
    /\ pages_per_domain = 1
    /\ max_depth >= 1
    /\ ~should_stop
    /\ Get0(domain_counts, "h") = 1
    /\ Get0(enqueued, PageB) = 1
    /\ queue = << >>
    /\ PageB \notin visited_urls

\* C22: rewriting is a fixed point on already-local references: when a
\* worker has finished rewriting a page, running rewrite_html_urls on the
\* result, with the same base URL, visited_urls and asset_map, returns it
\* unchanged.
C22_RewriteFixedPoint ==
    [][\A w \in Workers :
          (worker[w].pc # "save" /\ worker'[w].pc = "save")
              => rewrite_html_urls(worker'[w].html, worker'[w].url, skip_assets,
                                   asset_map', visited_urls') = worker'[w].html]_vars

\* C23: should_scrape(url, seed) is true if and only if the URL's host is
\* the seed's host, its path does not end in a blacklisted download
\* extension (.tar.gz included), its path matches no exclude pattern, and
\* none of the query keys download, login, logout, signin, signup is present.
C23_InScopeIff ==
    verdict # "none" =>
        (verdict = "scrape" <=>
            /\ netloc(candidate) = netloc(start_url)
            /\ PathSuffixes(candidate.path) \cap DOWNLOAD_EXTENSIONS = {}
            /\ candidate.path \notin EXCLUDE_PATHS
            /\ QueryNames(candidate.query) \cap exclude_params = {})


\* A step that removes items from the queue and processes none of them:
\* nothing is put on the queue, no GET is started, no PageRecord is written
RemovesUnprocessed ==
    /\ Len(queue') < Len(queue)
    /\ StartsNoRequest
    /\ scraped_data' = scraped_data
    /\ record_writes' = record_writes

C25_StopWithLastIncrement ==
    /\ [](max_pages >= 1 /\ pages_scraped_count >= max_pages => should_stop)
    /\ [][\A w \in Workers :
            (/\ stopper' = w
             /\ worker[w].pc \in {"page_get", "asset_get", "asset_retry", "save"}
             /\ worker'[w].pc \in {"get", "exited"})
            => worker[w].url \in DOMAIN scraped_data']_vars


\* C26: robots.txt is requested at most once per origin during a run.
C26_RobotsOncePerOrigin ==
    \A o \in DOMAIN robots_gets : robots_gets[o] <= 1


\* Worker w leaves a page that failed: its page GET ended without a 200
\* (lines 443-455), or save_page_content returned None (lines 534-538)
PageFails(w) ==
    \/ /\ worker[w].pc = "page_get"
       /\ worker'[w].pc # "page_get"
       /\ pages_scraped_count' = pages_scraped_count
    \/ /\ worker[w].pc = "save"
       /\ worker'[w].pc # "save"
       /\ worker[w].url \in DOMAIN scraped_data'
       /\ scraped_data'[worker[w].url].filepath = "None"

\* C27: a page that fails with a non-200 response, a timeout or network
\* error, or a storage error is counted in stats.pages_failed exactly once,
\* and the worker goes on to the next queue item.
C27_FailedPagesCounted ==
    [][\A w \in Workers :
          PageFails(w) => /\ stats'.pages_failed = stats.pages_failed + 1
                          /\ worker'[w].pc \in {"get", "exited"}]_vars

\* C28: when rewrite_html_urls raises on a fetched page, the worker goes on
\* to store the HTML as it was fetched; every page counted as scraped has a
\* PageRecord once its worker has left it.
C28_RewriteFailureStoresRaw ==
    /\ [][\A w \in Workers :
            (worker[w].pc = "page_get" /\ worker'[w] # worker[w] /\ raised' > raised)
            => /\ worker'[w].pc = "save"
               /\ worker'[w].html = Site(worker[w].url)]_vars
    /\ [](stats.pages_scraped =
            Cardinality(DOMAIN scraped_data)
            + Cardinality({w \in Workers :
                             worker[w].pc \in {"asset_get", "asset_retry", "save"}}))


\* The download_asset calls worker w made in this step that returned at
\* lines 156-160 without a request: the tasks that left its list, save the
\* one whose GET completed in this step
ReturnedFromCache(w) ==
    LET old == IF worker[w].pc = "page_get"
               THEN AssetTasks(Site(worker[w].url), worker[w].url, skip_assets)
               ELSE Tail(worker[w].tasks)
    IN {old[i] : i \in 1..(Len(old) - Len(worker'[w].tasks))}

\* download_asset returned None for task t: the reference is not a local path
ReturnedNone(html, t) ==
    IF t.slot = "css" THEN html.css[t.i].kind = "abs"
    ELSE html.assets[t.i].ref.kind = "abs"

\* Worker w goes on rewriting its page in this step
GoesOnRewriting(w) ==
    /\ worker[w].pc \in {"page_get", "asset_get", "asset_retry"}
    /\ worker'[w] # worker[w]
    /\ worker'[w].pc \in {"asset_get", "save"}

\* C29: a URL is never removed from failed_assets; a download_asset call for
\* a URL in failed_assets that starts after the failure returns None without
\* a request; the worker whose download failed goes on with its page.
C29_FailedAssetTerminal ==
    [][/\ failed_assets \subseteq failed_assets'
       /\ \A w \in Workers :
            /\ GoesOnRewriting(w) =>
                  \A t \in ReturnedFromCache(w) :
                      t.url \in failed_assets' => ReturnedNone(worker'[w].html, t)
            /\ (failed_assets' # failed_assets /\ worker'[w] # worker[w])
                  => worker'[w].pc \in {"asset_get", "save"}]_vars

\* One download_asset call: the second GET is issued only after a 403 to the
\* first, with the User-Agent header alone, and its answer ends the call,
\* with the file stored or the URL in failed_assets and None returned.
AssetCallGets ==
    /\ [](\A w \in Workers :
            worker[w].pc = "asset_retry" =>
                worker[w].status = "403" /\ worker[w].headers = {"User-Agent"})
    /\ [][\A w \in Workers :
            /\ (worker'[w].pc = "asset_retry" /\ worker'[w] # worker[w])
                  => worker[w].pc = "asset_get" /\ worker'[w].tasks = worker[w].tasks
            /\ (worker[w].pc = "asset_retry" /\ worker'[w] # worker[w])
                  => /\ GoesOnRewriting(w)
                     /\ Len(worker'[w].tasks) < Len(worker[w].tasks)
                     /\ LET t == Head(worker[w].tasks) IN
                        \/ /\ t.url \in DOMAIN asset_map'
                           /\ asset_map'[t.url] \in DOMAIN files'
                        \/ /\ t.url \in failed_assets'
                           /\ asset_map' = asset_map
                           /\ ReturnedNone(worker'[w].html, t)]_vars

\* One fetch_page call: the answer to the page GET ends the call, no second
\* page GET is issued for the URL
PageCallNoRetry ==
    /\ [](\A u \in DOMAIN page_gets : page_gets[u] <= 1)
    /\ [][\A w \in Workers :
            (worker[w].pc = "page_get" /\ worker'[w] # worker[w])
                => worker'[w].pc # "page_get" /\ page_gets' = page_gets]_vars

\* C30 as stated: at most two GETs per download_asset call, the second only
\* after a 403 and with the User-Agent header alone, a failed retry recorded
\* in failed_assets; every fetch_page call issues exactly one page GET.
C30_ExactlyOnePageGet ==
    /\ AssetCallGets
    /\ PageCallNoRetry
    /\ [](\A u \in visited_urls :
             (\A w \in Workers : ~(worker[w].pc = "robots" /\ worker[w].url = u))
                 => Get0(page_gets, u) = 1)

\* C30 amended: as above, but a fetch_page call issues at most one page GET:
\* none when robots.txt disallows the URL, one otherwise.
C30_AtMostOneRetry ==
    /\ AssetCallGets
    /\ PageCallNoRetry
    /\ [](\A u \in visited_urls :
             (\A w \in Workers : ~(worker[w].pc = "robots" /\ worker[w].url = u))
                 => \/ Get0(page_gets, u) = 1
                    \/ /\ Get0(page_gets, u) = 0
                       /\ respect_robots
                       /\ Origin(u) \in robots_cache
                       /\ u.path \in RobotsDisallow)

\* A worker waits for the answer to the second GET for the logo of /b
C30_Witness ==
    \E w \in Workers :
        /\ worker[w].pc = "asset_retry"
        /\ worker[w].url = PageB
        /\ Get0(asset_gets, Logo) >= 1
        /\ Get0(page_gets, PageB) = 1


\* The workers with a page or asset GET in flight (the first GET of
\* download_asset or its retry)
InFlight == {w \in Workers : worker[w].pc \in {"page_get", "asset_get", "asset_retry"}}

\* C31: the page and asset requests in flight are at most max_workers, each
\* holds one slot of the semaphore, and a request that has ended, whatever
\* its outcome, holds none.
C31_SemaphoreBoundsInFlight ==
    /\ Cardinality(InFlight) <= Cardinality(Workers)
    /\ semaphore >= 0
    /\ semaphore + Cardinality(InFlight) = Cardinality(Workers)

\* Every slot is taken, one by a 403 retry, after the page GET of the seed
\* and a download that failed gave theirs back
C31_Witness ==
    /\ semaphore = 0
    /\ InFlight = Workers
    /\ failed_assets # {}
    /\ \E w \in Workers : worker[w].pc = "asset_retry"


\* C32: when run() goes on to the manifest no worker is inside process_url
\* (the workers it cancels were waiting in queue.get()), the manifest holds
\* the tables as they are, and they do not change once it is written.
C32_ManifestAfterWorkers ==
    /\ [][(run_pc = "join" /\ run_pc' = "gathered")
            => \A w \in Workers : worker[w].pc \in {"get", "exited"}]_vars
    /\ [](run_pc \in {"gathered", "done"}
            => \A w \in Workers : worker[w].pc \in {"exited", "cancelled"})
    /\ [](run_pc = "done"
            => /\ manifest.pages = scraped_data
               /\ manifest.asset_map = asset_map
               /\ manifest.failed_assets = failed_assets
               /\ manifest.domain_counts = domain_counts
               /\ manifest.pages_scraped = pages_scraped_count)
    /\ [][run_pc = "done"
            => UNCHANGED << scraped_data, asset_map, failed_assets, domain_counts,
                            pages_scraped_count >>]_vars

\* The manifest of a run that stored the seed http://h/a and two of its
\* links, written after a worker was cancelled in queue.get()
C32_Witness ==
    /\ run_pc = "done"
    /\ Cardinality(DOMAIN scraped_data) = 3
    /\ \E w \in Workers : worker[w].pc = "cancelled"


\* The candidates of the served attribute whose asset_tasks entry has been
\* processed
SrcsetDone == 1..(Len(srcset_in) - Len(asset_tasks))

\* C33: rewriting a srcset keeps the number and order of its candidates and
\* their descriptors; a candidate whose URL token has not been processed is
\* untouched; after the loop the URL token of a candidate is "../" + local
\* path when its download succeeded and its absolute URL when it failed.
C33_SrcsetCandidatesKept ==
    /\ Len(srcset_value) = Len(srcset_in)
    /\ \A i \in 1..Len(srcset_in) :
          /\ srcset_value[i].desc = srcset_in[i].desc
          /\ (\A j \in SrcsetDone : srcset_in[j].url # srcset_in[i].url)
                => srcset_value[i] = srcset_in[i]
          /\ asset_tasks = << >>
                => srcset_value[i].url =
                      (IF Downloaded(urljoin(start_url, srcset_in[i].url)) # "None"
                       THEN Rel("../" \o Downloaded(urljoin(start_url, srcset_in[i].url)))
                       ELSE Abs(urljoin(start_url, srcset_in[i].url)))


\* The workers that have taken an item and are inside process_url
Processing ==
    {w \in Workers : worker[w].pc \in {"robots", "page_get", "asset_get",
                                      "asset_retry", "save"}}

\* C34: every item taken from the queue is matched by one task_done call
\* once the worker is done with it: the unfinished-task count of the queue
\* is the number of items in the queue plus the number of items being
\* processed, hence zero when the queue is empty and no worker is processing.
C34_TaskDonePerItem ==
    unfinished_tasks = Len(queue) + Cardinality(Processing)


\* C35: once should_stop is set nothing is put on the queue, and once the
\* monitor has made its drain pass (or was cancelled after join) the queue
\* is empty and stays empty.
C35_NoPutAfterStop ==
    /\ [][should_stop => enqueued' = enqueued /\ Len(queue') <= Len(queue)]_vars
    /\ [](monitor_pc \in {"done", "cancelled"} => queue = << >>)
    /\ [][monitor_pc = "done" => monitor_pc' = "done" /\ queue' = << >>]_vars

\* The page /b tripped the cap, /c left the queue unprocessed, and /b was
\* stored afterwards without its link /c being put on the queue again
C35_Witness ==
    /\ start_url = PageA /\ max_pages = 2 /\ pages_per_domain = 3 /\ max_depth = 2
    /\ monitor_pc = "done"
    /\ PageB \in DOMAIN scraped_data
    /\ PageC \notin visited_urls
    /\ Get0(enqueued, PageC) = 1
    /\ queue = << >>


\* sum(d.values())
RECURSIVE SumOver(_, _)
SumOver(d, S) ==
    IF S = {} THEN 0
    ELSE LET k == CHOOSE k \in S : TRUE IN d[k] + SumOver(d, S \ {k})

\* C36: pages_scraped_count is the sum of domain_counts and equals
\* stats.pages_scraped, the number of entries of scraped_data is at most
\* pages_scraped_count, and pages_scraped_count is at most the size of
\* visited_urls.
C36_CountersAgree ==
    /\ pages_scraped_count = SumOver(domain_counts, DOMAIN domain_counts)
    /\ pages_scraped_count = stats.pages_scraped
    /\ Cardinality(DOMAIN scraped_data) <= pages_scraped_count
    /\ pages_scraped_count <= Cardinality(visited_urls)

\* Three URLs admitted, two of them fetched and counted, one of these stored
C36_Witness ==
    /\ Cardinality(visited_urls) = 3
    /\ pages_scraped_count = 2
    /\ stats.pages_scraped = 2
    /\ Cardinality(DOMAIN scraped_data) = 1


\* The fetch_page call of worker w ends without content in this step: robots
\* denial (in the step that admits the URL, or after the robots.txt answer),
\* non-200 status, timeout or other error
FetchFails(w) ==
    /\ worker'[w].pc \in {"get", "exited"}
    /\ raised' = raised
    /\ \/ worker[w].pc \in {"robots", "page_get"}
       \/ /\ worker[w].pc = "get"
          /\ visited_urls' # visited_urls
          /\ queue' = Tail(queue)
          /\ worker' = worker

\* C37: a page whose fetch fails after admission leaves pages_scraped_count,
\* domain_counts and scraped_data unchanged; its URL is in visited_urls.
C37_FailedFetchNoQuota ==
    [][\A w \in Workers :
          FetchFails(w) =>
              /\ pages_scraped_count' = pages_scraped_count
              /\ domain_counts' = domain_counts
              /\ scraped_data' = scraped_data
              /\ stats'.pages_scraped = stats.pages_scraped
              /\ IF worker[w].pc = "get"
                 THEN visited_urls' = visited_urls \cup {Head(queue).url}
                 ELSE visited_urls' = visited_urls /\ worker[w].url \in visited_urls]_vars

\* The fetch of /b failed after the seed was stored: /b is visited, not
\* counted and not recorded, and its worker is back at the queue
C37_Witness ==
    /\ start_url = PageA
    /\ visited_urls = {PageA, PageB}
    /\ Get0(page_gets, PageB) = 1
    /\ pages_scraped_count = 1
    /\ Get0(domain_counts, "h") = 1
    /\ DOMAIN scraped_data = {PageA}
    /\ \A w \in Workers : worker[w].pc = "get"


\* C38: at most one scraper subprocess runs at a time, and a start request
\* that arrives while a subprocess is running is answered with status 400.
C38_OneScraperAtATime ==
    /\ [](Cardinality(Running) <= 1)
    /\ [][\A r \in Requests :
            (/\ request[r].pc = "new"
             /\ request'[r].kind = "start"
             /\ Running # {})
            => request'[r].status = 400]_vars

=============================================================================
